---- MODULE Spec2Model ----
(***************************************************************************)
(* Model of the multilinear interpolation kernel of consav                 *)
(* (linear_interp.py, linear_interp_2d.py .. linear_interp_5d.py) and of   *)
(* its upper envelope (upperenvelope.py).                                  *)
(*                                                                         *)
(* Arrays are 0-based functions, as in the source.  Floating point values  *)
(* are modelled in exact arithmetic: grids, queries and stored values are  *)
(* integers, and every division produces a normalised rational <<n, d>>    *)
(* (d > 0, gcd(n, d) = 1), so two results are equal as TLA+ values exactly *)
(* when they are equal as numbers.                                         *)
(***************************************************************************)
EXTENDS Integers, Sequences, FiniteSets, TLC

VARIABLES
    dim,     \* value.ndim: rank of the value array the caller holds (1: a bare grid)
    grid,    \* <<grid1, .., grid_dim>>: the caller's grids
    vkind,   \* the contents of the value array (see value)
    op,      \* name of the function called last ("none" before the first call)
    xi,      \* <<xi1, .., xi_dim>>: the caller's query data, one entry per axis
    js,      \* int32[2] buffer of interp_2d_to_rep / interp_2d_from_rep
    prep,    \* int32[] token returned by interp_*d_prep
    yi,      \* output vector of the batch functions
    ret,     \* return value of the last call
    grid_a,     \* upperenvelope: end-of-period asset vector of length Na
    m_vec,      \* upperenvelope: cash-on-hand vector from egm of length Na
    c_vec,      \* upperenvelope: consumption vector from egm of length Na
    inv_w_vec,  \* upperenvelope: post decision value-of-choice vector of length Na
    grid_m,     \* upperenvelope: common grid for cash-on-hand of length Nm
    c_ast_vec,  \* upperenvelope: output, consumption on the common grid
    v_ast_vec,  \* upperenvelope: output, value-of-choice on the common grid
    use_inv_w,  \* create(ufunc, use_inv_w): the negative-inverse flag
    ufunc       \* create(ufunc, use_inv_w): the utility function (see Utility)

\* the arrays and the closure of an upperenvelope function
envvars ==
    <<grid_a, m_vec, c_vec, inv_w_vec, grid_m, c_ast_vec, v_ast_vec, use_inv_w, ufunc>>

vars == <<dim, grid, vkind, op, xi, js, prep, yi, ret, envvars>>

(***************************************************************************)
(* Bounds of the model.                                                    *)
(***************************************************************************)
\* binary_search alone: grid points are drawn from 0..SearchMaxCoord
SearchMaxCoord == 7
\* interpolation: the points of every grid are drawn from 0..MaxCoord
MaxCoord == 2
\* largest batch size Nyi
MaxNyi == 2
\* upperenvelope: largest number Na of knots and largest number Nm of targets
MaxNa == 3
MaxNm == 2

(***************************************************************************)
(* Arrays and exact arithmetic.                                            *)
(***************************************************************************)
Size(a) == Cardinality(DOMAIN a)

Zeros(n) == [i \in 0..(n-1) |-> 0]

Abs(n) == IF n < 0 THEN -n ELSE n

RECURSIVE Gcd(_, _)
Gcd(a, b) == IF b = 0 THEN a ELSE Gcd(b, a % b)

\* the number n/d (d # 0) in normal form
Div(n, d) ==
    LET g == Gcd(Abs(n), Abs(d))
        s == IF d < 0 THEN -1 ELSE 1
    IN  <<(s * n) \div g, (s * d) \div g>>

\* the integer v as a number in normal form
Num(v) == <<v, 1>>

\* the strictly increasing array holding the elements of S
SortedArray(S) ==
    [i \in 0..(Cardinality(S)-1) |->
        CHOOSE v \in S : Cardinality({w \in S : w < v}) = i]

\* every strictly increasing grid of size >= 2 with points in 0..maxc
Grids(maxc) ==
    {SortedArray(S) : S \in {T \in SUBSET (0..maxc) : Cardinality(T) >= 2}}

\* the query coordinates tried on a grid: every integer from one below the
\* first to one above the last grid point, so every node, every point between
\* two nodes and both sides outside the grid
QueriesOf(g) == (g[0] - 1)..(g[Size(g) - 1] + 1)

\* the grids whose first point is 0 and whose last point is maxc
SpanGrids(maxc) == {g \in Grids(maxc) : g[0] = 0 /\ g[Size(g) - 1] = maxc}

(***************************************************************************)
(* binary_search (linear_interp.py)                                        *)
(***************************************************************************)
\* the halving loop; also records the number of iterations and the indices read
\* a loop that removes one index from the range in each iteration
RECURSIVE binary_search_loop_linear(_, _, _, _, _, _, _)
binary_search_loop_linear(imin, Nx, half, x, xi_, iters, reads) ==
    IF half = 0
    THEN [imin |-> imin, iters |-> iters, reads |-> reads]
    ELSE LET imid  == imin + 1
             imin2 == IF x[imid] <= xi_ THEN imid ELSE imin
             Nx2   == Nx - 1
         IN  binary_search_loop_linear(imin2, Nx2, Nx2 \div 2, x, xi_,
                                       iters + 1, reads \cup {imid})

RECURSIVE binary_search_loop(_, _, _, _, _, _, _)
binary_search_loop(imin, Nx, half, x, xi_, iters, reads) ==
    IF half = 0
    THEN [imin |-> imin, iters |-> iters, reads |-> reads]
    ELSE LET imid  == imin + half
             imin2 == IF x[imid] <= xi_ THEN imid ELSE imin
             Nx2   == Nx - half
         IN  binary_search_loop(imin2, Nx2, Nx2 \div 2, x, xi_,
                                iters + 1, reads \cup {imid})

\* a run of binary_search: the returned index and what the loop did
binary_search_run(imin, Nx, x, xi_) ==
    IF xi_ <= x[0]
    THEN [imin |-> 0, iters |-> 0, reads |-> {}]
    ELSE IF xi_ >= x[Nx-2]
    THEN [imin |-> Nx-2, iters |-> 0, reads |-> {}]
    ELSE binary_search_loop(imin, Nx, Nx \div 2, x, xi_, 0, {})

\* mutant: no clamp above the grid, the loop runs for every xi > x[0]
binary_search_no_high_clamp(imin, Nx, x, xi_) ==
    IF xi_ <= x[0] THEN 0
    ELSE binary_search_loop(imin, Nx, Nx \div 2, x, xi_, 0, {}).imin

\* mutant: the upper clamp returns the last grid index instead of the last bracket
binary_search_clamp_high_index(imin, Nx, x, xi_) ==
    IF xi_ <= x[0] THEN 0
    ELSE IF xi_ >= x[Nx-2] THEN Nx-1
    ELSE binary_search_loop(imin, Nx, Nx \div 2, x, xi_, 0, {}).imin

\* mutant: the loop halves the range (Nx = half) instead of removing the half
\* it has looked at (Nx -= half)
RECURSIVE binary_search_halve_loop(_, _, _, _, _)
binary_search_halve_loop(imin, Nx, half, x, xi_) ==
    IF half = 0 THEN imin
    ELSE binary_search_halve_loop(IF x[imin + half] <= xi_ THEN imin + half ELSE imin,
                                  half, half \div 2, x, xi_)

binary_search_halve_only(imin, Nx, x, xi_) ==
    IF xi_ <= x[0] THEN 0
    ELSE IF xi_ >= x[Nx-2] THEN Nx-2
    ELSE binary_search_halve_loop(imin, Nx, Nx \div 2, x, xi_)

binary_search(imin, Nx, x, xi_) == binary_search_run(imin, Nx, x, xi_).imin

(***************************************************************************)
(* The value array.  A value array is named by its kind; value[i1,..,id]   *)
(* is ValueAt(kind, <<i1,..,id>>), for every rank d.                       *)
(*   "sum": the sum of the indices ([[0,1],[1,2]] on a 2 x 2 grid)         *)
(*   "alt": a different value at every node (the indices as decimal digits *)
(*          plus one), with the sign changing from node to node            *)
(***************************************************************************)
RECURSIVE SumIdx(_)
SumIdx(idx) == IF idx = <<>> THEN 0 ELSE Head(idx) + SumIdx(Tail(idx))

RECURSIVE EncIdx(_)
EncIdx(idx) == IF idx = <<>> THEN 0 ELSE Head(idx) + 10 * EncIdx(Tail(idx))

ValueAt(kind, idx) ==
    CASE kind = "sum" -> SumIdx(idx)
      [] kind = "alt" -> (IF SumIdx(idx) % 2 = 0 THEN 1 ELSE -1) * (1 + EncIdx(idx))

ValueKinds == {"sum", "alt"}

(***************************************************************************)
(* Single-point evaluation (linear_interp_2d.py .. linear_interp_5d.py).   *)
(* The parameter value is the kind of the value array.                     *)
(***************************************************************************)
\* mutant: the left and right weights swapped
nom_side_swapped(g, j, x, k) == IF k = 0 THEN x - g[j] ELSE g[j+1] - x

\* nom_k_left if k == 0 else nom_k_right
nom_side(g, j, x, k) == IF k = 0 THEN g[j+1] - x ELSE x - g[j]

\* mutant: the second index of the value array never moves to the high corner
_interp_2d_low_corner(grid1, grid2, value, xi1, xi2, j1, j2) ==
    LET term(k1, k2) == nom_side(grid1, j1, xi1, k1) * nom_side(grid2, j2, xi2, k2)
                            * ValueAt(value, <<j1+k1, j2>>)
    IN  Div(term(0,0) + term(0,1) + term(1,0) + term(1,1),
            (grid1[j1+1]-grid1[j1]) * (grid2[j2+1]-grid2[j2]))

_interp_2d(grid1, grid2, value, xi1, xi2, j1, j2) ==
    LET nom_1(k1) == nom_side(grid1, j1, xi1, k1)
        nom_2(k2) == nom_side(grid2, j2, xi2, k2)
        denom == (grid1[j1+1]-grid1[j1]) * (grid2[j2+1]-grid2[j2])
        term(k1, k2) == nom_1(k1) * nom_2(k2) * ValueAt(value, <<j1+k1, j2+k2>>)
        loop2(k1) == term(k1, 0) + term(k1, 1)
        nom == loop2(0) + loop2(1)
    IN  Div(nom, denom)

interp_2d(grid1, grid2, value, xi1, xi2) ==
    LET j1 == binary_search(0, Size(grid1), grid1, xi1)
        j2 == binary_search(0, Size(grid2), grid2, xi2)
    IN  _interp_2d(grid1, grid2, value, xi1, xi2, j1, j2)

\* mutant: the two brackets are stored in the opposite order
interp_2d_to_rep_swapped(js_, grid1, grid2, value, xi1, xi2) ==
    LET j1 == binary_search(0, Size(grid1), grid1, xi1)
        j2 == binary_search(0, Size(grid2), grid2, xi2)
    IN  [js  |-> [js_ EXCEPT ![0] = j2, ![1] = j1],
         ret |-> _interp_2d(grid1, grid2, value, xi1, xi2, j1, j2)]

\* interp_2d_to_rep: the buffer js after the call and the returned value
interp_2d_to_rep(js_, grid1, grid2, value, xi1, xi2) ==
    LET j1 == binary_search(0, Size(grid1), grid1, xi1)
        j2 == binary_search(0, Size(grid2), grid2, xi2)
    IN  [js  |-> [js_ EXCEPT ![0] = j1, ![1] = j2],
         ret |-> _interp_2d(grid1, grid2, value, xi1, xi2, j1, j2)]

\* interp_2d_from_rep: the buffer js after the call and the returned value
interp_2d_from_rep(js_, grid1, grid2, value, xi1, xi2) ==
    LET j1 == js_[0]
        j2 == js_[1]
    IN  [js  |-> js_,
         ret |-> _interp_2d(grid1, grid2, value, xi1, xi2, j1, j2)]

_interp_3d(grid1, grid2, grid3, value, xi1, xi2, xi3, j1, j2, j3) ==
    LET nom_1(k1) == nom_side(grid1, j1, xi1, k1)
        nom_2(k2) == nom_side(grid2, j2, xi2, k2)
        nom_3(k3) == nom_side(grid3, j3, xi3, k3)
        denom == (grid1[j1+1]-grid1[j1]) * (grid2[j2+1]-grid2[j2])
                    * (grid3[j3+1]-grid3[j3])
        term(k1, k2, k3) == nom_1(k1) * nom_2(k2) * nom_3(k3)
                                * ValueAt(value, <<j1+k1, j2+k2, j3+k3>>)
        loop3(k1, k2) == term(k1, k2, 0) + term(k1, k2, 1)
        loop2(k1) == loop3(k1, 0) + loop3(k1, 1)
        nom == loop2(0) + loop2(1)
    IN  Div(nom, denom)

interp_3d(grid1, grid2, grid3, value, xi1, xi2, xi3) ==
    LET j1 == binary_search(0, Size(grid1), grid1, xi1)
        j2 == binary_search(0, Size(grid2), grid2, xi2)
        j3 == binary_search(0, Size(grid3), grid3, xi3)
    IN  _interp_3d(grid1, grid2, grid3, value, xi1, xi2, xi3, j1, j2, j3)

_interp_4d(grid1, grid2, grid3, grid4, value, xi1, xi2, xi3, xi4, j1, j2, j3, j4) ==
    LET nom_1(k1) == nom_side(grid1, j1, xi1, k1)
        nom_2(k2) == nom_side(grid2, j2, xi2, k2)
        nom_3(k3) == nom_side(grid3, j3, xi3, k3)
        nom_4(k4) == nom_side(grid4, j4, xi4, k4)
        denom == (grid1[j1+1]-grid1[j1]) * (grid2[j2+1]-grid2[j2])
                    * (grid3[j3+1]-grid3[j3]) * (grid4[j4+1]-grid4[j4])
        term(k1, k2, k3, k4) == nom_1(k1) * nom_2(k2) * nom_3(k3) * nom_4(k4)
                                    * ValueAt(value, <<j1+k1, j2+k2, j3+k3, j4+k4>>)
        loop4(k1, k2, k3) == term(k1, k2, k3, 0) + term(k1, k2, k3, 1)
        loop3(k1, k2) == loop4(k1, k2, 0) + loop4(k1, k2, 1)
        loop2(k1) == loop3(k1, 0) + loop3(k1, 1)
        nom == loop2(0) + loop2(1)
    IN  Div(nom, denom)

interp_4d(grid1, grid2, grid3, grid4, value, xi1, xi2, xi3, xi4) ==
    LET j1 == binary_search(0, Size(grid1), grid1, xi1)
        j2 == binary_search(0, Size(grid2), grid2, xi2)
        j3 == binary_search(0, Size(grid3), grid3, xi3)
        j4 == binary_search(0, Size(grid4), grid4, xi4)
    IN  _interp_4d(grid1, grid2, grid3, grid4, value, xi1, xi2, xi3, xi4, j1, j2, j3, j4)

_interp_5d(grid1, grid2, grid3, grid4, grid5, value, xi1, xi2, xi3, xi4, xi5, j1, j2, j3, j4, j5) ==
    LET nom_1(k1) == nom_side(grid1, j1, xi1, k1)
        nom_2(k2) == nom_side(grid2, j2, xi2, k2)
        nom_3(k3) == nom_side(grid3, j3, xi3, k3)
        nom_4(k4) == nom_side(grid4, j4, xi4, k4)
        nom_5(k5) == nom_side(grid5, j5, xi5, k5)
        denom == (grid1[j1+1]-grid1[j1]) * (grid2[j2+1]-grid2[j2])
                    * (grid3[j3+1]-grid3[j3]) * (grid4[j4+1]-grid4[j4])
                    * (grid5[j5+1]-grid5[j5])
        term(k1, k2, k3, k4, k5) ==
            nom_1(k1) * nom_2(k2) * nom_3(k3) * nom_4(k4) * nom_5(k5)
                * ValueAt(value, <<j1+k1, j2+k2, j3+k3, j4+k4, j5+k5>>)
        loop5(k1, k2, k3, k4) == term(k1, k2, k3, k4, 0) + term(k1, k2, k3, k4, 1)
        loop4(k1, k2, k3) == loop5(k1, k2, k3, 0) + loop5(k1, k2, k3, 1)
        loop3(k1, k2) == loop4(k1, k2, 0) + loop4(k1, k2, 1)
        loop2(k1) == loop3(k1, 0) + loop3(k1, 1)
        nom == loop2(0) + loop2(1)
    IN  Div(nom, denom)

interp_5d(grid1, grid2, grid3, grid4, grid5, value, xi1, xi2, xi3, xi4, xi5) ==
    LET j1 == binary_search(0, Size(grid1), grid1, xi1)
        j2 == binary_search(0, Size(grid2), grid2, xi2)
        j3 == binary_search(0, Size(grid3), grid3, xi3)
        j4 == binary_search(0, Size(grid4), grid4, xi4)
        j5 == binary_search(0, Size(grid5), grid5, xi5)
    IN  _interp_5d(grid1, grid2, grid3, grid4, grid5, value, xi1, xi2, xi3, xi4, xi5,
                   j1, j2, j3, j4, j5)

(***************************************************************************)
(* Batch evaluation (interp_2d_vec, interp_3d_vec).                        *)
(***************************************************************************)
\* a vector of n zeros (np.zeros, or yi[i] = 0.0) as numbers
FZeros(n) == [i \in 0..(n-1) |-> Num(0)]

\* a batch loop that reads the second coordinate of query 0 for every query
RECURSIVE interp_2d_vec_loop_first(_, _, _, _, _, _, _)
interp_2d_vec_loop_first(i, grid1, grid2, value, xi1, xi2, yi_) ==
    IF i >= Size(yi_) THEN yi_
    ELSE interp_2d_vec_loop_first(i + 1, grid1, grid2, value, xi1, xi2,
            [yi_ EXCEPT ![i] = interp_2d(grid1, grid2, value, xi1[i], xi2[0])])

\* for i in range(yi.size): yi[i] = interp_2d(grid1,grid2,value,xi1[i],xi2[i])
RECURSIVE interp_2d_vec_loop(_, _, _, _, _, _, _)
interp_2d_vec_loop(i, grid1, grid2, value, xi1, xi2, yi_) ==
    IF i >= Size(yi_) THEN yi_
    ELSE interp_2d_vec_loop(i + 1, grid1, grid2, value, xi1, xi2,
            [yi_ EXCEPT ![i] = interp_2d(grid1, grid2, value, xi1[i], xi2[i])])

\* interp_2d_vec: the output vector yi after the call
interp_2d_vec(grid1, grid2, value, xi1, xi2, yi_) ==
    interp_2d_vec_loop(0, grid1, grid2, value, xi1, xi2, yi_)

\* for i in range(yi.size): yi[i] = interp_3d(grid1,..,value,xi1[i],xi2[i],xi3[i])
RECURSIVE interp_3d_vec_loop(_, _, _, _, _, _, _, _, _)
interp_3d_vec_loop(i, grid1, grid2, grid3, value, xi1, xi2, xi3, yi_) ==
    IF i >= Size(yi_) THEN yi_
    ELSE interp_3d_vec_loop(i + 1, grid1, grid2, grid3, value, xi1, xi2, xi3,
            [yi_ EXCEPT ![i] =
                interp_3d(grid1, grid2, grid3, value, xi1[i], xi2[i], xi3[i])])

\* interp_3d_vec: the output vector yi after the call
interp_3d_vec(grid1, grid2, grid3, value, xi1, xi2, xi3, yi_) ==
    interp_3d_vec_loop(0, grid1, grid2, grid3, value, xi1, xi2, xi3, yi_)

(***************************************************************************)
(* Prepared evaluation of the last dimension only.                         *)
(***************************************************************************)
\* interp_2d_prep: the token returned
interp_2d_prep(grid1, xi1, Nyi) ==
    LET j1 == binary_search(0, Size(grid1), grid1, xi1)
    IN  [Zeros(1 + Nyi) EXCEPT ![Nyi + 0] = j1]

\* a token with the shared brackets in the leading positions
interp_3d_prep_shared_first(grid1, grid2, xi1, xi2, Nyi) ==
    LET j1 == binary_search(0, Size(grid1), grid1, xi1)
        j2 == binary_search(0, Size(grid2), grid2, xi2)
    IN  [Zeros(2 + Nyi) EXCEPT ![0] = j1, ![1] = j2]

\* interp_3d_prep: the token returned
interp_3d_prep(grid1, grid2, xi1, xi2, Nyi) ==
    LET j1 == binary_search(0, Size(grid1), grid1, xi1)
        j2 == binary_search(0, Size(grid2), grid2, xi2)
    IN  [Zeros(2 + Nyi) EXCEPT ![Nyi + 0] = j1, ![Nyi + 1] = j2]

\* what a read outside an array may produce in the result: numba compiles the
\* functions without bounds checks, so the read returns whatever lies there
AnyNumber == {Num(v) : v \in (-1)..1}

\* interp_3d_only_last: the values the call may return.  The brackets of the
\* shared dimensions are read from prep[0] and prep[1]; when such a bracket is
\* no bracket of its grid, grid[j+1] and value[j+k,..] are read out of bounds.
interp_3d_only_last(prep_, grid1, grid2, grid3, value, xi1, xi2, xi3) ==
    LET j1 == prep_[0]
        j2 == prep_[1]
        j3 == binary_search(0, Size(grid3), grid3, xi3)
    IN  IF j1 \in 0..(Size(grid1) - 2) /\ j2 \in 0..(Size(grid2) - 2)
        THEN {_interp_3d(grid1, grid2, grid3, value, xi1, xi2, xi3, j1, j2, j3)}
        ELSE AnyNumber

\* while xi2[i] >= grid2[j2+1] and j2 < grid2.size-2: j2 += 1
\* (the bracket reached and the number of iterations)
RECURSIVE mon_advance_run(_, _, _, _)
mon_advance_run(j, g, x, steps) ==
    IF x >= g[j+1] /\ j < Size(g) - 2
    THEN mon_advance_run(j + 1, g, x, steps + 1)
    ELSE [j |-> j, steps |-> steps]

\* a monotone mode that searches every query from scratch
mon_advance_search(j, g, x) == binary_search(0, Size(g), g, x)

\* a forward scan that may pass the last bracket
RECURSIVE mon_advance_past(_, _, _)
mon_advance_past(j, g, x) ==
    IF j < Size(g) - 1 /\ x >= g[j+1]
    THEN mon_advance_past(j + 1, g, x)
    ELSE j

\* a forward scan that stops in front of a grid point equal to the query
RECURSIVE mon_advance_strict(_, _, _)
mon_advance_strict(j, g, x) ==
    IF x > g[j+1] /\ j < Size(g) - 2
    THEN mon_advance_strict(j + 1, g, x)
    ELSE j

mon_advance(j, g, x) == mon_advance_run(j, g, x, 0).j

\* a search that clears the first shared bracket when it is done
RECURSIVE search_last_clears(_, _, _, _, _, _)
search_last_clears(i, Nyi, prep_, g, x, monotone) ==
    IF i >= Nyi THEN [prep_ EXCEPT ![Nyi] = 0]
    ELSE search_last_clears(i + 1, Nyi,
            [prep_ EXCEPT ![i] =
                IF monotone /\ i > 0
                THEN mon_advance(prep_[i-1], g, x[i])
                ELSE binary_search(0, Size(g), g, x[i])],
            g, x, monotone)

\* a search step that leaves the token as it is
search_last_skipped(i, Nyi, prep_, g, x, monotone) == prep_

\* a. search in last dimension: the token after queries i, i+1, .. are searched
RECURSIVE search_last(_, _, _, _, _, _)
search_last(i, Nyi, prep_, g, x, monotone) ==
    IF i >= Nyi THEN prep_
    ELSE search_last(i + 1, Nyi,
            [prep_ EXCEPT ![i] =
                IF monotone /\ i > 0
                THEN mon_advance(prep_[i-1], g, x[i])
                ELSE binary_search(0, Size(g), g, x[i])],
            g, x, monotone)

\* _interp_2d_only_last_vec: the token prep after the call and the arrays yi may
\* hold then: one array, unless a bracket lies outside [0, grid.size-2] and the
\* interpolation reads outside a grid
_interp_2d_only_last_vec(prep_, grid1, grid2, value, xi1, xi2, yi_, monotone, search) ==
    LET Nyi == Size(yi_)
        j1 == prep_[Nyi + 0]
        prep2 == IF search THEN search_last(0, Nyi, prep_, grid2, xi2, monotone)
                 ELSE prep_
        nom_1(k1) == nom_side(grid1, j1, xi1, k1)
        denom == grid1[j1+1] - grid1[j1]
        term(k1, i, k2) ==
            nom_1(k1) * nom_side(grid2, prep2[i], xi2[i], k2)
                * ValueAt(value, <<j1+k1, prep2[i]+k2>>)
        loop2(k1, i) == term(k1, i, 0) + term(k1, i, 1)
        acc(i) == loop2(0, i) + loop2(1, i)
        bounded == /\ j1 \in 0..(Size(grid1) - 2)
                   /\ \A i \in DOMAIN yi_ : prep2[i] \in 0..(Size(grid2) - 2)
    IN  [prep |-> prep2,
         yi |-> IF bounded
                THEN {[i \in DOMAIN yi_ |->
                         Div(acc(i), denom * (grid2[prep2[i]+1] - grid2[prep2[i]]))]}
                ELSE [DOMAIN yi_ -> AnyNumber]]

interp_2d_only_last_vec(prep_, grid1, grid2, value, xi1, xi2, yi_) ==
    _interp_2d_only_last_vec(prep_, grid1, grid2, value, xi1, xi2, yi_, FALSE, TRUE)

interp_2d_only_last_vec_mon(prep_, grid1, grid2, value, xi1, xi2, yi_) ==
    _interp_2d_only_last_vec(prep_, grid1, grid2, value, xi1, xi2, yi_, TRUE, TRUE)

interp_2d_only_last_vec_mon_rep(prep_, grid1, grid2, value, xi1, xi2, yi_) ==
    _interp_2d_only_last_vec(prep_, grid1, grid2, value, xi1, xi2, yi_, TRUE, FALSE)

\* _interp_3d_only_last_vec: the token prep after the call and the arrays yi may
\* hold then
_interp_3d_only_last_vec(prep_, grid1, grid2, grid3, value, xi1, xi2, xi3, yi_, monotone, search) ==
    LET Nyi == Size(yi_)
        j1 == prep_[Nyi + 0]
        j2 == prep_[Nyi + 1]
        prep2 == IF search THEN search_last(0, Nyi, prep_, grid3, xi3, monotone)
                 ELSE prep_
        nom_1(k1) == nom_side(grid1, j1, xi1, k1)
        nom_2(k2) == nom_side(grid2, j2, xi2, k2)
        denom == (grid1[j1+1] - grid1[j1]) * (grid2[j2+1] - grid2[j2])
        term(k1, k2, i, k3) ==
            nom_1(k1) * nom_2(k2) * nom_side(grid3, prep2[i], xi3[i], k3)
                * ValueAt(value, <<j1+k1, j2+k2, prep2[i]+k3>>)
        loop3(k1, k2, i) == term(k1, k2, i, 0) + term(k1, k2, i, 1)
        loop2(k1, i) == loop3(k1, 0, i) + loop3(k1, 1, i)
        acc(i) == loop2(0, i) + loop2(1, i)
        bounded == /\ j1 \in 0..(Size(grid1) - 2)
                   /\ j2 \in 0..(Size(grid2) - 2)
                   /\ \A i \in DOMAIN yi_ : prep2[i] \in 0..(Size(grid3) - 2)
    IN  [prep |-> prep2,
         yi |-> IF bounded
                THEN {[i \in DOMAIN yi_ |->
                         Div(acc(i), denom * (grid3[prep2[i]+1] - grid3[prep2[i]]))]}
                ELSE [DOMAIN yi_ -> AnyNumber]]

interp_3d_only_last_vec(prep_, grid1, grid2, grid3, value, xi1, xi2, xi3, yi_) ==
    _interp_3d_only_last_vec(prep_, grid1, grid2, grid3, value, xi1, xi2, xi3, yi_,
                             FALSE, TRUE)

interp_3d_only_last_vec_mon(prep_, grid1, grid2, grid3, value, xi1, xi2, xi3, yi_) ==
    _interp_3d_only_last_vec(prep_, grid1, grid2, grid3, value, xi1, xi2, xi3, yi_,
                             TRUE, TRUE)

interp_3d_only_last_vec_mon_rep(prep_, grid1, grid2, grid3, value, xi1, xi2, xi3, yi_) ==
    _interp_3d_only_last_vec(prep_, grid1, grid2, grid3, value, xi1, xi2, xi3, yi_,
                             TRUE, FALSE)

(***************************************************************************)
(* upperenvelope (upperenvelope.py).  Floating point numbers are the       *)
(* normalised rationals <<n, d>> (d > 0) and -np.inf, written <<-1, 0>>.   *)
(* The functions are compiled with numba's default error model, in which   *)
(* a division by zero raises ZeroDivisionError.                            *)
(***************************************************************************)
NegInf == <<-1, 0>>

IsFinite(x) == x[2] # 0

QAdd(x, y) ==
    IF IsFinite(x) /\ IsFinite(y) THEN Div(x[1] * y[2] + y[1] * x[2], x[2] * y[2])
    ELSE NegInf

QSub(x, y) == Div(x[1] * y[2] - y[1] * x[2], x[2] * y[2])

QMul(x, y) == Div(x[1] * y[1], x[2] * y[2])

\* x / y for y # 0
QDiv(x, y) == Div(x[1] * y[2], x[2] * y[1])

QLt(x, y) ==
    IF IsFinite(x) /\ IsFinite(y) THEN x[1] * y[2] < y[1] * x[2]
    ELSE ~IsFinite(x) /\ IsFinite(y)

QLe(x, y) == x = y \/ QLt(x, y)

\* the utility functions a caller passes to create(): "lin" is u(c) = c, "crra"
\* is -1/c for c > 0 (CRRA with rho = 2) and -np.inf where c is not positive
Utility(uf, c) ==
    IF uf = "lin" THEN c
    ELSE IF QLt(Num(0), c) THEN QDiv(Num(-1), c) ELSE NegInf

UtilityKinds == {"lin", "crra"}

\* a reset that clears c_vec in place of c_ast_vec
ue_reset_c_vec(mem) ==
    [mem EXCEPT !.c_vec = [i \in DOMAIN @ |-> Num(0)],
                !.v_ast_vec = [i \in DOMAIN @ |-> NegInf]]

\* a call that starts from what the output buffers hold
ue_reset_none(mem) ==
    mem

\* c_ast_vec[:] = 0; v_ast_vec[:] = -np.inf
ue_reset(mem) ==
    [mem EXCEPT !.c_ast_vec = [i \in DOMAIN @ |-> Num(0)],
                !.v_ast_vec = [i \in DOMAIN @ |-> NegInf]]

\* the value-of-choice u + (-1/inv_w) or u + inv_w (inv_w # 0 when inverted)
ValueOfChoice(u, inv_w, inv) ==
    IF inv THEN QAdd(u, QDiv(Num(-1), inv_w)) ELSE QAdd(u, inv_w)

\* a constraint loop that stops at a target equal to m_vec[0]
RECURSIVE ue_constraint_strict(_, _, _, _)
ue_constraint_strict(im, mem, uf, inv) ==
    IF im < Size(mem.grid_m) /\ QLt(mem.grid_m[im], mem.m_vec[0])
    THEN LET consumed == [mem EXCEPT !.c_ast_vec[im] = mem.grid_m[im]]
             u == Utility(uf, consumed.c_ast_vec[im])
         IN  IF inv /\ mem.inv_w_vec[0] = Num(0)
             THEN [consumed EXCEPT !.raised = TRUE]
             ELSE ue_constraint_strict(im + 1,
                      [consumed EXCEPT !.v_ast_vec[im] =
                          ValueOfChoice(u, mem.inv_w_vec[0], inv)],
                      uf, inv)
    ELSE mem

\* a constraint that consumes everything only when the flag is unset
RECURSIVE ue_constraint_flag_policy(_, _, _, _)
ue_constraint_flag_policy(im, mem, uf, inv) ==
    IF im < Size(mem.grid_m) /\ QLe(mem.grid_m[im], mem.m_vec[0])
    THEN LET consumed == [mem EXCEPT !.c_ast_vec[im] =
                             IF inv THEN Num(0) ELSE mem.grid_m[im]]
             u == Utility(uf, consumed.c_ast_vec[im])
         IN  IF inv /\ mem.inv_w_vec[0] = Num(0)
             THEN [consumed EXCEPT !.raised = TRUE]
             ELSE ue_constraint_flag_policy(im + 1,
                      [consumed EXCEPT !.v_ast_vec[im] =
                          ValueOfChoice(u, mem.inv_w_vec[0], inv)],
                      uf, inv)
    ELSE mem

\* the constraint: while im < Nm and grid_m[im] <= m_vec[0]
RECURSIVE ue_constraint(_, _, _, _)
ue_constraint(im, mem, uf, inv) ==
    IF im < Size(mem.grid_m) /\ QLe(mem.grid_m[im], mem.m_vec[0])
    THEN LET consumed == [mem EXCEPT !.c_ast_vec[im] = mem.grid_m[im]]
             u == Utility(uf, consumed.c_ast_vec[im])
         IN  IF inv /\ mem.inv_w_vec[0] = Num(0)
             THEN [consumed EXCEPT !.raised = TRUE]
             ELSE ue_constraint(im + 1,
                      [consumed EXCEPT !.v_ast_vec[im] =
                          ValueOfChoice(u, mem.inv_w_vec[0], inv)],
                      uf, inv)
    ELSE mem

\* segment ia divides by zero when it computes its slopes (lines 85 and 94)
SlopeRaises(ia, mem) ==
    \/ mem.grid_a[ia+1] = mem.grid_a[ia]
    \/ mem.m_vec[ia+1] = mem.m_vec[ia]

\* a segment test that only interpolates
ue_covers_interp_only(ia, im, mem) ==
    LET m == mem.grid_m[im]
    IN  QLe(mem.m_vec[ia], m) /\ QLe(m, mem.m_vec[ia+1])

\* a segment test that lets every segment extrapolate above the last knot
ue_covers_extrap_any(ia, im, mem) ==
    LET m == mem.grid_m[im]
        interp == QLe(mem.m_vec[ia], m) /\ QLe(m, mem.m_vec[ia+1])
        extrap_above == QLt(mem.m_vec[Size(mem.grid_a)-1], m)
    IN  interp \/ extrap_above

\* a segment test that lets every segment produce a candidate at every target
ue_covers_all(ia, im, mem) ==
    TRUE

\* a segment test that also extrapolates below the first knot
ue_covers_extrap_below(ia, im, mem) ==
    LET m == mem.grid_m[im]
        interp == QLe(mem.m_vec[ia], m) /\ QLe(m, mem.m_vec[ia+1])
        extrap_above == ia = Size(mem.grid_a) - 2 /\ QLt(mem.m_vec[Size(mem.grid_a)-1], m)
        extrap_below == ia = 0 /\ QLt(m, mem.m_vec[0])
    IN  interp \/ extrap_above \/ extrap_below

\* ii. interpolate?  interp or extrap_above
ue_covers(ia, im, mem) ==
    LET m == mem.grid_m[im]
        interp == QLe(mem.m_vec[ia], m) /\ QLe(m, mem.m_vec[ia+1])
        extrap_above == ia = Size(mem.grid_a) - 2 /\ QLt(mem.m_vec[Size(mem.grid_a)-1], m)
    IN  interp \/ extrap_above

\* segment ia at target im (lines 100-121): whether the segment interpolates or
\* extrapolates there, whether -1/inv_w divides by zero, and the guess (c, v)
ue_guess(ia, im, mem, uf, inv) ==
    LET a_low == mem.grid_a[ia]
        a_high == mem.grid_a[ia+1]
        inv_w_low == mem.inv_w_vec[ia]
        inv_w_high == mem.inv_w_vec[ia+1]
        inv_w_slope == QDiv(QSub(inv_w_high, inv_w_low), QSub(a_high, a_low))
        m_low == mem.m_vec[ia]
        m_high == mem.m_vec[ia+1]
        c_low == mem.c_vec[ia]
        c_high == mem.c_vec[ia+1]
        c_slope == QDiv(QSub(c_high, c_low), QSub(m_high, m_low))
        m == mem.grid_m[im]
        c_guess == QAdd(c_low, QMul(c_slope, QSub(m, m_low)))
        a_guess == QSub(m, c_guess)
        inv_w == QAdd(inv_w_low, QMul(inv_w_slope, QSub(a_guess, a_low)))
        u == Utility(uf, c_guess)
    IN  IF ~ue_covers(ia, im, mem)
        THEN [taken |-> FALSE, raises |-> FALSE, c |-> Num(0), v |-> NegInf]
        ELSE IF inv /\ inv_w = Num(0)
        THEN [taken |-> TRUE, raises |-> TRUE, c |-> c_guess, v |-> NegInf]
        ELSE [taken |-> TRUE, raises |-> FALSE, c |-> c_guess,
              v |-> ValueOfChoice(u, inv_w, inv)]

\* an update that stores every guess
ue_update_always(im, mem, guess) ==
    [mem EXCEPT !.v_ast_vec[im] = guess.v, !.c_ast_vec[im] = guess.c]

\* an update that also replaces the pair on equal value
ue_update_last(im, mem, guess) ==
    IF QLe(mem.v_ast_vec[im], guess.v)
    THEN [mem EXCEPT !.v_ast_vec[im] = guess.v, !.c_ast_vec[im] = guess.c]
    ELSE mem

\* an update that keeps the first guess found
ue_update_first(im, mem, guess) ==
    IF mem.v_ast_vec[im] = NegInf /\ QLt(mem.v_ast_vec[im], guess.v)
    THEN [mem EXCEPT !.v_ast_vec[im] = guess.v, !.c_ast_vec[im] = guess.c]
    ELSE mem

\* an update that stores the value and leaves the consumption
ue_update_value_only(im, mem, guess) ==
    IF QLt(mem.v_ast_vec[im], guess.v)
    THEN [mem EXCEPT !.v_ast_vec[im] = guess.v]
    ELSE mem

\* an update that keeps the guess of lower value
ue_update_lower(im, mem, guess) ==
    IF QLt(guess.v, mem.v_ast_vec[im])
    THEN [mem EXCEPT !.v_ast_vec[im] = guess.v, !.c_ast_vec[im] = guess.c]
    ELSE mem

\* oooo. update: if v_guess > v_ast_vec[im]
ue_update(im, mem, guess) ==
    IF QLt(mem.v_ast_vec[im], guess.v)
    THEN [mem EXCEPT !.v_ast_vec[im] = guess.v, !.c_ast_vec[im] = guess.c]
    ELSE mem

\* a scan that skips no segment
ue_skips_never(ia, mem) ==
    FALSE

\* a. a inteval and w slope: if a_low > a_high: continue
ue_skips(ia, mem) ==
    QLt(mem.grid_a[ia+1], mem.grid_a[ia])

\* c. loop through common grid: for im in range(Nm)
RECURSIVE ue_targets(_, _, _, _, _)
ue_targets(ia, im, mem, uf, inv) ==
    IF im >= Size(mem.grid_m) THEN mem
    ELSE LET guess == ue_guess(ia, im, mem, uf, inv)
         IN  IF ~guess.taken THEN ue_targets(ia, im + 1, mem, uf, inv)
             ELSE IF guess.raises THEN [mem EXCEPT !.raised = TRUE]
             ELSE ue_targets(ia, im + 1, ue_update(im, mem, guess), uf, inv)

\* upper envelope: for ia in range(Na-1)
RECURSIVE ue_scan(_, _, _, _)
ue_scan(ia, mem, uf, inv) ==
    IF mem.raised \/ ia >= Size(mem.grid_a) - 1 THEN mem
    ELSE IF ue_skips(ia, mem) THEN ue_scan(ia + 1, mem, uf, inv)
    ELSE IF SlopeRaises(ia, mem) THEN [mem EXCEPT !.raised = TRUE]
    ELSE ue_scan(ia + 1, ue_targets(ia, 0, mem, uf, inv), uf, inv)

\* upperenvelope(grid_a, m_vec, c_vec, inv_w_vec, grid_m, c_ast_vec, v_ast_vec)
\* of create(uf, inv): the arrays when the call returns or raises
upperenvelope(mem, uf, inv) ==
    LET constrained == ue_constraint(0, ue_reset(mem), uf, inv)
    IN  IF constrained.raised THEN constrained
        ELSE ue_scan(0, constrained, uf, inv)

(***************************************************************************)
(* Calls of the single-point functions on the caller's query point.        *)
(***************************************************************************)
\* a function that only returns a value
PointCall(name, r) ==
    /\ op' = name
    /\ ret' = r
    /\ UNCHANGED <<dim, grid, vkind, xi, js, prep, yi, envvars>>

\* ret = interp_2d(grid1, grid2, value, xi1, xi2)
Interp2d ==
    /\ dim = 2
    /\ PointCall("interp_2d", interp_2d(grid[1], grid[2], vkind, xi[1], xi[2]))

\* ret = interp_2d_to_rep(js, grid1, grid2, value, xi1, xi2)
Interp2dToRep ==
    /\ dim = 2
    /\ LET r == interp_2d_to_rep(js, grid[1], grid[2], vkind, xi[1], xi[2])
       IN  /\ op' = "interp_2d_to_rep"
           /\ js' = r.js
           /\ ret' = r.ret
    /\ UNCHANGED <<dim, grid, vkind, xi, prep, yi, envvars>>

\* ret = interp_2d_from_rep(js, grid1, grid2, value, xi1, xi2)
Interp2dFromRep ==
    /\ dim = 2
    /\ LET r == interp_2d_from_rep(js, grid[1], grid[2], vkind, xi[1], xi[2])
       IN  /\ op' = "interp_2d_from_rep"
           /\ js' = r.js
           /\ ret' = r.ret
    /\ UNCHANGED <<dim, grid, vkind, xi, prep, yi, envvars>>

\* ret = interp_3d(grid1, grid2, grid3, value, xi1, xi2, xi3)
Interp3d ==
    /\ dim = 3
    /\ PointCall("interp_3d",
                 interp_3d(grid[1], grid[2], grid[3], vkind, xi[1], xi[2], xi[3]))

\* ret = interp_4d(grid1, .., grid4, value, xi1, .., xi4)
Interp4d ==
    /\ dim = 4
    /\ PointCall("interp_4d",
                 interp_4d(grid[1], grid[2], grid[3], grid[4], vkind,
                           xi[1], xi[2], xi[3], xi[4]))

\* ret = interp_5d(grid1, .., grid5, value, xi1, .., xi5)
Interp5d ==
    /\ dim = 5
    /\ PointCall("interp_5d",
                 interp_5d(grid[1], grid[2], grid[3], grid[4], grid[5], vkind,
                           xi[1], xi[2], xi[3], xi[4], xi[5]))

\* prep = interp_3d_prep(grid1, grid2, xi1, xi2, Nyi), for any batch size Nyi
Interp3dPrepAny ==
    /\ dim = 3
    /\ \E Nyi \in 0..MaxNyi :
          prep' = interp_3d_prep(grid[1], grid[2], xi[1], xi[2], Nyi)
    /\ op' = "interp_3d_prep"
    /\ UNCHANGED <<dim, grid, vkind, xi, js, yi, ret, envvars>>

\* ret = interp_3d_only_last(prep, grid1, grid2, grid3, value, xi1, xi2, xi3),
\* once the caller holds a token returned by interp_3d_prep
Interp3dOnlyLast ==
    /\ dim = 3
    /\ Size(prep) >= 2
    /\ \E r \in interp_3d_only_last(prep, grid[1], grid[2], grid[3], vkind,
                                     xi[1], xi[2], xi[3]) :
          PointCall("interp_3d_only_last", r)

\* a call of a batch function: it writes the token and the output vector
BatchCall(name, r) ==
    /\ op' = name
    /\ prep' = r.prep
    /\ yi' \in r.yi
    /\ UNCHANGED <<dim, grid, vkind, xi, js, ret, envvars>>

\* prep = interp_2d_prep(grid1, xi1, Nyi) for the caller's batch, Nyi = yi.size
Interp2dPrep ==
    /\ dim = 2
    /\ prep' = interp_2d_prep(grid[1], xi[1], Size(yi))
    /\ op' = "interp_2d_prep"
    /\ UNCHANGED <<dim, grid, vkind, xi, js, yi, ret, envvars>>

\* the caller holds a token built for dim-1 shared dimensions and yi.size queries
HasToken == Size(prep) = (dim - 1) + Size(yi)

\* interp_2d_only_last_vec(prep, grid1, grid2, value, xi1, xi2, yi)
Interp2dOnlyLastVec ==
    /\ dim = 2
    /\ HasToken
    /\ BatchCall("interp_2d_only_last_vec",
                 interp_2d_only_last_vec(prep, grid[1], grid[2], vkind,
                                         xi[1], xi[2], yi))

\* interp_2d_only_last_vec_mon(prep, grid1, grid2, value, xi1, xi2, yi)
Interp2dOnlyLastVecMon ==
    /\ dim = 2
    /\ HasToken
    /\ BatchCall("interp_2d_only_last_vec_mon",
                 interp_2d_only_last_vec_mon(prep, grid[1], grid[2], vkind,
                                             xi[1], xi[2], yi))

\* interp_2d_only_last_vec_mon_rep(prep, grid1, grid2, value, xi1, xi2, yi)
Interp2dOnlyLastVecMonRep ==
    /\ dim = 2
    /\ HasToken
    /\ BatchCall("interp_2d_only_last_vec_mon_rep",
                 interp_2d_only_last_vec_mon_rep(prep, grid[1], grid[2], vkind,
                                                 xi[1], xi[2], yi))

\* prep = interp_3d_prep(grid1, grid2, xi1, xi2, Nyi) for the caller's batch
Interp3dPrep ==
    /\ dim = 3
    /\ prep' = interp_3d_prep(grid[1], grid[2], xi[1], xi[2], Size(yi))
    /\ op' = "interp_3d_prep"
    /\ UNCHANGED <<dim, grid, vkind, xi, js, yi, ret, envvars>>

\* interp_3d_only_last_vec(prep, grid1, grid2, grid3, value, xi1, xi2, xi3, yi)
Interp3dOnlyLastVec ==
    /\ dim = 3
    /\ HasToken
    /\ BatchCall("interp_3d_only_last_vec",
                 interp_3d_only_last_vec(prep, grid[1], grid[2], grid[3], vkind,
                                         xi[1], xi[2], xi[3], yi))

\* interp_3d_only_last_vec_mon(prep, grid1, grid2, grid3, value, xi1, xi2, xi3, yi)
Interp3dOnlyLastVecMon ==
    /\ dim = 3
    /\ HasToken
    /\ BatchCall("interp_3d_only_last_vec_mon",
                 interp_3d_only_last_vec_mon(prep, grid[1], grid[2], grid[3], vkind,
                                             xi[1], xi[2], xi[3], yi))

\* interp_3d_only_last_vec_mon_rep(prep, grid1, .., value, xi1, xi2, xi3, yi)
Interp3dOnlyLastVecMonRep ==
    /\ dim = 3
    /\ HasToken
    /\ BatchCall("interp_3d_only_last_vec_mon_rep",
                 interp_3d_only_last_vec_mon_rep(prep, grid[1], grid[2], grid[3],
                                                 vkind, xi[1], xi[2], xi[3], yi))

\* a call of interp_dD_vec: it writes the output vector only
VecCall(name, r) ==
    /\ op' = name
    /\ yi' = r
    /\ UNCHANGED <<dim, grid, vkind, xi, js, prep, ret, envvars>>

\* interp_2d_vec(grid1, grid2, value, xi1, xi2, yi)
Interp2dVec ==
    /\ dim = 2
    /\ VecCall("interp_2d_vec",
               interp_2d_vec(grid[1], grid[2], vkind, xi[1], xi[2], yi))

\* interp_3d_vec(grid1, grid2, grid3, value, xi1, xi2, xi3, yi)
Interp3dVec ==
    /\ dim = 3
    /\ VecCall("interp_3d_vec",
               interp_3d_vec(grid[1], grid[2], grid[3], vkind,
                             xi[1], xi[2], xi[3], yi))

\* the arrays a call of upperenvelope works on
Mem ==
    [grid_a |-> grid_a, m_vec |-> m_vec, c_vec |-> c_vec, inv_w_vec |-> inv_w_vec,
     grid_m |-> grid_m, c_ast_vec |-> c_ast_vec, v_ast_vec |-> v_ast_vec,
     raised |-> FALSE]

\* upperenvelope(grid_a, m_vec, c_vec, inv_w_vec, grid_m, c_ast_vec, v_ast_vec):
\* the call returns None or raises ZeroDivisionError; the arrays keep what was
\* written until then
Upperenvelope ==
    /\ ufunc \in UtilityKinds
    /\ LET r == upperenvelope(Mem, ufunc, use_inv_w)
       IN  /\ grid_a' = r.grid_a
           /\ m_vec' = r.m_vec
           /\ c_vec' = r.c_vec
           /\ inv_w_vec' = r.inv_w_vec
           /\ grid_m' = r.grid_m
           /\ c_ast_vec' = r.c_ast_vec
           /\ v_ast_vec' = r.v_ast_vec
           /\ ret' = IF r.raised THEN "ZeroDivisionError" ELSE "None"
    /\ op' = "upperenvelope"
    /\ UNCHANGED <<dim, grid, vkind, xi, js, prep, yi, use_inv_w, ufunc>>

\* a caller that holds no upperenvelope function and none of its arrays
NoEnvelope ==
    /\ grid_a = <<>> /\ m_vec = <<>> /\ c_vec = <<>> /\ inv_w_vec = <<>>
    /\ grid_m = <<>> /\ c_ast_vec = <<>> /\ v_ast_vec = <<>>
    /\ use_inv_w = FALSE /\ ufunc = "none"

\* the caller's buffers before the first call
FreshBuffers ==
    /\ op = "none"
    /\ js = Zeros(2)
    /\ prep = Zeros(0)
    /\ yi = Zeros(0)
    /\ ret = 0
    /\ NoEnvelope

\* every query point of the grids gs: one coordinate per axis
PointsOf(gs) ==
    {q \in [DOMAIN gs -> UNION {QueriesOf(gs[k]) : k \in DOMAIN gs}] :
        \A k \in DOMAIN gs : q[k] \in QueriesOf(gs[k])}

(***************************************************************************)
(* Specification SpecNd: single-point evaluation in 2 to 5 dimensions.     *)
(* The caller holds a value array of rank dim, grids for its axes and a    *)
(* query point.  In 2 and 3 dimensions the odd axes share one grid and the *)
(* even axes another; in 4 and 5 dimensions all axes share one grid that   *)
(* runs from 0 to MaxCoord.                                                *)
(***************************************************************************)
InitPoint(dims) ==
    /\ dim \in dims
    /\ \E gA \in Grids(MaxCoord), gB \in Grids(MaxCoord) :
          /\ dim >= 4 => (gB = gA /\ gA \in SpanGrids(MaxCoord))
          /\ grid = [k \in 1..dim |-> IF k % 2 = 1 THEN gA ELSE gB]
    /\ vkind \in ValueKinds
    /\ xi \in PointsOf(grid)
    /\ FreshBuffers

InitNd == InitPoint(2..5)

NextNd ==
    \/ Interp2d
    \/ Interp2dToRep
    \/ Interp2dFromRep
    \/ Interp3d
    \/ Interp4d
    \/ Interp5d

SpecNd == InitNd /\ [][NextNd]_vars

(***************************************************************************)
(* Specification Spec: prepared evaluation of a batch of queries that      *)
(* share all coordinates but the last, in 2 and 3 dimensions.  The caller  *)
(* holds the grids, the shared coordinates, the batch xi[dim] of           *)
(* last-dimension queries (sorted or not) and an output vector of the      *)
(* batch's size.  The grids run from 0 to MaxCoord; in 3 dimensions the    *)
(* three axes use one grid, and xi2 is xi1 reflected through its middle.   *)
(***************************************************************************)
\* every array of at most n queries on the grid g
Batches(g, n) == UNION {[0..(m-1) -> QueriesOf(g)] : m \in 0..n}

Reflect(g, x) == g[0] + g[Size(g) - 1] - x

Init ==
    /\ dim \in 2..3
    /\ \E gS \in SpanGrids(MaxCoord), gL \in SpanGrids(MaxCoord) :
          /\ dim = 3 => gL = gS
          /\ grid = [k \in 1..dim |-> IF k = dim THEN gL ELSE gS]
          /\ \E x \in QueriesOf(gS), b \in Batches(gL, MaxNyi) :
                /\ xi = [k \in 1..dim |->
                            IF k = dim THEN b ELSE IF k = 1 THEN x ELSE Reflect(gS, x)]
                /\ yi = FZeros(Size(b))
    /\ vkind = "alt"
    /\ op = "none"
    /\ js = Zeros(2)
    /\ prep = Zeros(0)
    /\ ret = 0
    /\ NoEnvelope

Next ==
    \/ Interp2dPrep
    \/ Interp2dOnlyLastVec
    \/ Interp2dOnlyLastVecMon
    \/ Interp2dOnlyLastVecMonRep
    \/ Interp3dPrep
    \/ Interp3dOnlyLastVec
    \/ Interp3dOnlyLastVecMon
    \/ Interp3dOnlyLastVecMonRep

Spec == Init /\ [][Next]_vars

(***************************************************************************)
(* Specification SpecVec: batched evaluation of query points in 2 and 3    *)
(* dimensions.  The caller holds one query array per axis, all of the      *)
(* batch's size: xi1 is any batch, the second coordinate of a query is the *)
(* reflected first coordinate of the next query (cyclically), and in 3     *)
(* dimensions xi3 = xi1.                                                   *)
(***************************************************************************)
InitVec ==
    /\ dim \in 2..3
    /\ \E gA \in SpanGrids(MaxCoord), gB \in SpanGrids(MaxCoord) :
          /\ grid = [k \in 1..dim |-> IF k % 2 = 1 THEN gA ELSE gB]
          /\ \E b \in Batches(gA, MaxNyi) :
                /\ xi = [k \in 1..dim |->
                            IF k = 2
                            THEN [i \in DOMAIN b |-> Reflect(gA, b[(i + 1) % Size(b)])]
                            ELSE b]
                /\ yi = FZeros(Size(b))
    /\ vkind \in ValueKinds
    /\ op = "none"
    /\ js = Zeros(2)
    /\ prep = Zeros(0)
    /\ ret = 0
    /\ NoEnvelope

NextVec ==
    \/ Interp2dVec
    \/ Interp3dVec

SpecVec == InitVec /\ [][NextVec]_vars

(***************************************************************************)
(* Specification SpecEnv: upperenvelope called on EGM knots and a target   *)
(* grid.  The knot sequence is any sequence of 1..MaxNa different knots    *)
(* (a, m, c, w) of Knots: the three knots of the fold scenario             *)
(* (grid_a = [0,1,2], m_vec = [1,3,2], c_vec = [1,2,1.5],                  *)
(* inv_w_vec = [0,-1,-0.5]), a knot above them and a knot with c = 0 that  *)
(* shares its a with one knot and its m with another.  The sequences are   *)
(* in any order, so a and m rise, fall or repeat along them; no segment    *)
(* yields a negative consumption at a target.                              *)
(* The target grid is any strictly increasing grid of at most MaxNm of the *)
(* points 0.5, 1, .. 3, and the output buffers hold what the caller left   *)
(* in them.                                                                *)
(***************************************************************************)
Knot(a, m, c, w) == [a |-> a, m |-> m, c |-> c, w |-> w]

Knots ==
    {Knot(Num(0), Num(1), Num(1), Num(0)),
     Knot(Num(1), Num(3), Num(2), Num(-1)),
     Knot(Num(2), Num(2), Div(3, 2), Div(-1, 2)),
     Knot(Num(3), Div(5, 2), Num(1), Num(-3)),
     Knot(Num(2), Num(3), Num(0), Num(-2))}

\* the sequences of 1..n different knots
KnotSeqs(n) ==
    UNION {{ks \in [0..(k-1) -> Knots] : \A i, j \in 0..(k-1) : ks[i] = ks[j] => i = j} :
              k \in 1..n}

\* the target grids: strictly increasing arrays of at most n points k/2
TargetGrids(n) ==
    {[i \in DOMAIN SortedArray(S) |-> Div(SortedArray(S)[i], 2)] :
        S \in {T \in SUBSET (1..6) : Cardinality(T) <= n}}

\* what an output buffer holds before the call, in every entry
BufferFills == {NegInf, Num(9)}

InitEnv ==
    /\ dim = 1 /\ grid = <<>> /\ vkind = "none" /\ xi = <<>>
    /\ op = "none" /\ js = Zeros(2) /\ prep = Zeros(0) /\ yi = Zeros(0)
    /\ ret = "none"
    /\ \E ks \in KnotSeqs(MaxNa) :
          /\ grid_a = [i \in DOMAIN ks |-> ks[i].a]
          /\ m_vec = [i \in DOMAIN ks |-> ks[i].m]
          /\ c_vec = [i \in DOMAIN ks |-> ks[i].c]
          /\ inv_w_vec = [i \in DOMAIN ks |-> ks[i].w]
    /\ grid_m \in TargetGrids(MaxNm)
    /\ \E fill \in BufferFills :
          /\ c_ast_vec = [i \in DOMAIN grid_m |-> fill]
          /\ v_ast_vec = [i \in DOMAIN grid_m |-> fill]
    /\ use_inv_w \in BOOLEAN
    /\ ufunc \in UtilityKinds

NextEnv == Upperenvelope

SpecEnv == InitEnv /\ [][NextEnv]_vars

(***************************************************************************)
(* Specification SpecPrep3d: a 3d query point evaluated directly and       *)
(* through a token of interp_3d_prep.                                      *)
(***************************************************************************)
InitPrep3d == InitPoint({3})

NextPrep3d ==
    \/ Interp3d
    \/ Interp3dPrepAny
    \/ Interp3dOnlyLast

SpecPrep3d == InitPrep3d /\ [][NextPrep3d]_vars

(***************************************************************************)
(* Specification SpecSearch: binary_search called on a bare grid.          *)
(***************************************************************************)
InitSearch ==
    /\ dim = 1
    /\ grid \in {<<g>> : g \in Grids(SearchMaxCoord)}
    /\ vkind = "none"
    /\ xi \in PointsOf(grid)
    /\ FreshBuffers

\* ret = binary_search(0, x.size, x, xi)
BinarySearch ==
    /\ dim = 1
    /\ PointCall("binary_search", binary_search(0, Size(grid[1]), grid[1], xi[1]))

NextSearch == BinarySearch

SpecSearch == InitSearch /\ [][NextSearch]_vars

(***************************************************************************)
(* Claims about binary_search.                                             *)
(***************************************************************************)
Searched == op = "binary_search"

\* C1: binary_search(0, N, grid, xi) returns an index j with 0 <= j <= N-2 for
\* every strictly increasing grid of size N >= 2 and every query, inside, below
\* or above the grid range.
C1_IndexInRange ==
    Searched => (0 <= ret /\ ret <= Size(grid[1]) - 2)

\* C1 witness: a search on a two-point grid with a query above the grid
C1_Witness ==
    /\ Searched
    /\ Size(grid[1]) = 2
    /\ xi[1] > grid[1][1]
    /\ ret = 0

\* C2: for a query strictly inside the grid range the returned index brackets
\* the query: g[j] <= xi <= g[j+1].
C2_Brackets ==
    (Searched /\ grid[1][0] < xi[1] /\ xi[1] < grid[1][Size(grid[1]) - 1])
        => (grid[1][ret] <= xi[1] /\ xi[1] <= grid[1][ret + 1])

\* C2 witness: an interior query that the halving loop (not a clamp) resolved
\* to an interior bracket of a grid with at least five points
C2_Witness ==
    /\ Searched
    /\ Size(grid[1]) >= 5
    /\ grid[1][0] < xi[1] /\ xi[1] < grid[1][Size(grid[1]) - 2]
    /\ ret >= 2
    /\ grid[1][ret] < xi[1] /\ xi[1] < grid[1][ret + 1]

\* C3: binary_search returns 0 whenever xi <= grid[0] and N-2 whenever
\* xi >= grid[N-2].
C3_Clamps ==
    Searched =>
        /\ (xi[1] <= grid[1][0] => ret = 0)
        /\ (xi[1] >= grid[1][Size(grid[1]) - 2] => ret = Size(grid[1]) - 2)

\* C3 witness: a query beyond the last grid point reuses the final bracket
C3_Witness ==
    /\ Searched
    /\ Size(grid[1]) >= 3
    /\ xi[1] > grid[1][Size(grid[1]) - 1]
    /\ ret = Size(grid[1]) - 2

(***************************************************************************)
(* Claims about single-point evaluation.                                   *)
(***************************************************************************)
PointOp == op \in {"interp_2d", "interp_3d", "interp_4d", "interp_5d"}

\* the query of the last call lies on a grid node on every axis
AtNode == \A k \in 1..dim : \E i \in DOMAIN grid[k] : grid[k][i] = xi[k]

\* the index tuple of the node the query lies on
NodeIdx == [k \in 1..dim |-> CHOOSE i \in DOMAIN grid[k] : grid[k][i] = xi[k]]

\* C4: evaluating interp_dD (d = 2..5) exactly at a grid node returns the value
\* stored at that node, including nodes on the first and last point of an axis.
C4_ExactAtNodes ==
    (PointOp /\ AtNode) => ret = Num(ValueAt(vkind, NodeIdx))

\* C4 witness: a 5-dimensional evaluation at a node that is first on one axis,
\* last on another and interior on a third, of an array with a value per node
C4_Witness ==
    /\ op = "interp_5d"
    /\ AtNode
    /\ vkind = "alt"
    /\ NodeIdx[1] = 0
    /\ NodeIdx[2] = Size(grid[2]) - 1
    /\ Size(grid[3]) >= 3 /\ NodeIdx[3] = 1
    /\ ret = Num(ValueAt(vkind, NodeIdx))

\* the weight of corner k on an axis: the distance to the opposite grid point
Weight(g, j, x, k) == IF k = 0 THEN g[j+1] - x ELSE x - g[j]

\* the reference bilinear interpolant on the brackets (j1, j2)
Bilinear(g1, g2, v, x1, x2, j1, j2) ==
    LET corner(k1, k2) ==
            Weight(g1, j1, x1, k1) * Weight(g2, j2, x2, k2) * ValueAt(v, <<j1+k1, j2+k2>>)
    IN  Div(corner(0, 0) + corner(0, 1) + corner(1, 0) + corner(1, 1),
            (g1[j1+1] - g1[j1]) * (g2[j2+1] - g2[j2]))

\* the brackets binary_search returns for the caller's 2d query point
Bracket1 == binary_search(0, Size(grid[1]), grid[1], xi[1])
Bracket2 == binary_search(0, Size(grid[2]), grid[2], xi[2])

\* C5: interp_2d equals the reference bilinear interpolant on the brackets from
\* binary_search: the sum over the four corners of weight_1 * weight_2 * value
\* divided by the product of the two interval widths.
C5_Bilinear ==
    op = "interp_2d" =>
        ret = Bilinear(grid[1], grid[2], vkind, xi[1], xi[2], Bracket1, Bracket2)

\* C5 witness: scenario 2 in half units: grids [0,2] x [0,2] (the scenario's
\* [0,1] x [0,1]), value [[0,1],[1,2]], query (1,1) (the scenario's (0.5,0.5)),
\* result 1
C5_Witness ==
    /\ op = "interp_2d"
    /\ grid[1] = SortedArray({0, 2}) /\ grid[2] = SortedArray({0, 2})
    /\ vkind = "sum"
    /\ xi = <<1, 1>>
    /\ ret = Num(1)

\* C10: interp_2d_to_rep returns the value interp_2d returns at that point and
\* stores the two brackets in js[0], js[1]; interp_2d_from_rep with that js
\* returns the same value, and interp_2d_from_rep never modifies js.
C10_FromRep ==
    /\ [](op = "interp_2d_to_rep" =>
            /\ ret = interp_2d(grid[1], grid[2], vkind, xi[1], xi[2])
            /\ js[0] = Bracket1 /\ js[1] = Bracket2)
    /\ [][(op' = "interp_2d_from_rep") =>
            /\ js' = js
            /\ (op = "interp_2d_to_rep" => ret' = ret)]_vars

\* C10 witness: interp_2d_from_rep has run on brackets stored by interp_2d_to_rep
\* that differ from the initial contents of js
C10_Witness ==
    /\ op = "interp_2d_from_rep"
    /\ js[0] = Bracket1 /\ js[1] = Bracket2
    /\ js[0] > 0 /\ js[1] > 0
    /\ ret = interp_2d(grid[1], grid[2], vkind, xi[1], xi[2])

(***************************************************************************)
(* Claims about batched evaluation.                                        *)
(***************************************************************************)
VecOp == op \in {"interp_2d_vec", "interp_3d_vec"}

\* single-point evaluation of query i of the per-axis query arrays x
PointOf(x, i) ==
    IF dim = 2
    THEN interp_2d(grid[1], grid[2], vkind, x[1][i], x[2][i])
    ELSE interp_3d(grid[1], grid[2], grid[3], vkind, x[1][i], x[2][i], x[3][i])

\* the output of the batch function on the per-axis query arrays x
VecOf(x) ==
    IF dim = 2
    THEN interp_2d_vec(grid[1], grid[2], vkind, x[1], x[2], FZeros(Size(x[1])))
    ELSE interp_3d_vec(grid[1], grid[2], grid[3], vkind, x[1], x[2], x[3],
                       FZeros(Size(x[1])))

\* the permutations of the indices of an array a
PermsOf(a) == {p \in [DOMAIN a -> DOMAIN a] : \A i, k \in DOMAIN a : p[i] = p[k] => i = k}

\* the array a with its entries in the order p
Permuted(a, p) == [i \in DOMAIN a |-> a[p[i]]]

\* C6: after interp_2d_vec / interp_3d_vec returns, yi[i] is the value interp_2d
\* / interp_3d returns at query i, for every i; and the batch function run on
\* the batch in any other order returns the same outputs in that order.
C6_VecMatchesPointwise ==
    VecOp =>
        /\ \A i \in DOMAIN yi : yi[i] = PointOf(xi, i)
        /\ \A p \in PermsOf(yi) :
              VecOf([k \in 1..dim |-> Permuted(xi[k], p)]) = Permuted(yi, p)

\* C6 witness: a 2d batch of two queries in descending order of the first
\* coordinate, the second strictly between two grid points, with two
\* different outputs
C6_Witness ==
    /\ op = "interp_2d_vec"
    /\ Size(yi) = 2
    /\ xi[1][0] > xi[1][1]
    /\ grid[1][0] < xi[1][1] /\ xi[1][1] < grid[1][1]
    /\ yi[0] # yi[1]
    /\ \A i \in DOMAIN yi : yi[i] = PointOf(xi, i)

(***************************************************************************)
(* Claims about prepared evaluation.                                       *)
(***************************************************************************)
\* C8: for every Nyi >= 0 and prep = interp_3d_prep(grid1, grid2, xi1, xi2, Nyi),
\* interp_3d_only_last(prep, .., xi1, xi2, xi3) returns the value of
\* interp_3d(.., xi1, xi2, xi3).  (Violated: see C8_NyiZero.)
C8_OnlyLastMatches ==
    op = "interp_3d_only_last" =>
        ret = interp_3d(grid[1], grid[2], grid[3], vkind, xi[1], xi[2], xi[3])

\* the case in which the code agrees with C8: a token built for Nyi = 0, whose
\* shared brackets lie at prep[0], prep[1]
C8_NyiZero ==
    (op = "interp_3d_only_last" /\ Size(prep) = 2) =>
        ret = interp_3d(grid[1], grid[2], grid[3], vkind, xi[1], xi[2], xi[3])

\* the caller's batch of last-dimension queries and its size
LastXi == xi[dim]
Nyi == Size(yi)

\* direct single-point evaluation of query i of the caller's batch
Direct(i) ==
    IF dim = 2
    THEN interp_2d(grid[1], grid[2], vkind, xi[1], xi[2][i])
    ELSE interp_3d(grid[1], grid[2], grid[3], vkind, xi[1], xi[2], xi[3][i])

\* the bracket binary_search returns for query i of the caller's batch
LastBracket(i) == binary_search(0, Size(grid[dim]), grid[dim], LastXi[i])

NonDecreasing(x) == \A i \in DOMAIN x : i > 0 => x[i-1] <= x[i]

\* C7: after interp_2d_only_last_vec / interp_3d_only_last_vec runs on a token of
\* interp_2d_prep / interp_3d_prep (yi.size == Nyi) and a batch in any order,
\* yi[i] is the value interp_2d / interp_3d returns at (xi1, (xi2,) batch[i]).
C7_PreparedMatchesDirect ==
    op \in {"interp_2d_only_last_vec", "interp_3d_only_last_vec"} =>
        \A i \in DOMAIN yi : yi[i] = Direct(i)

\* C7 witness: a 3d batch that is not sorted, with a shared bracket that is not 0
C7_Witness ==
    /\ op = "interp_3d_only_last_vec"
    /\ Nyi >= 2
    /\ LastXi[0] > LastXi[1]
    /\ LastBracket(0) > LastBracket(1)
    /\ prep[Nyi] > 0
    /\ \A i \in DOMAIN yi : yi[i] = Direct(i)

\* C9: whenever the last-dimension queries are non-decreasing, the monotone
\* variants leave in prep[0..Nyi-1] the brackets binary_search returns for each
\* query, and in yi what the full-search variants compute (direct evaluation).
C9_MonotoneOnSorted ==
    (/\ op \in {"interp_2d_only_last_vec_mon", "interp_3d_only_last_vec_mon"}
     /\ NonDecreasing(LastXi))
        => \A i \in DOMAIN yi :
              /\ prep[i] = LastBracket(i)
              /\ yi[i] = Direct(i)

\* C9 witness: a sorted 2d batch whose second query lies on a grid point and
\* moved the bracket forward
C9_Witness ==
    /\ op = "interp_2d_only_last_vec_mon"
    /\ Nyi >= 2
    /\ NonDecreasing(LastXi)
    /\ prep[0] = 0 /\ prep[1] = 1
    /\ LastXi[1] = grid[2][1]
    /\ \A i \in DOMAIN yi : prep[i] = LastBracket(i)

(***************************************************************************)
(* Claims about upperenvelope.                                             *)
(***************************************************************************)
\* the last call of upperenvelope returned (it did not raise)
Returned == op = "upperenvelope" /\ ret = "None"

Na == Size(grid_a)
Nm == Size(grid_m)

\* target im lies in the constrained region
Constrained(im) == QLe(grid_m[im], m_vec[0])

\* the pair (c, v) of consuming everything at target im
ConsumeAll(im) ==
    [c |-> grid_m[im],
     v |-> ValueOfChoice(Utility(ufunc, grid_m[im]), inv_w_vec[0], use_inv_w)]

\* the segments the scan does not skip (a_low <= a_high)
Scanned == {ia \in 0..(Na - 2) : QLe(grid_a[ia], grid_a[ia+1])}

\* the segments that produced a candidate at target im, and their candidates
Producers(im) == {ia \in Scanned : ue_guess(ia, im, Mem, ufunc, use_inv_w).taken}

SegmentGuess(ia, im) ==
    LET g == ue_guess(ia, im, Mem, ufunc, use_inv_w) IN [c |-> g.c, v |-> g.v]

\* the pair (c, v) the outputs hold at target im
Out(im) == [c |-> c_ast_vec[im], v |-> v_ast_vec[im]]

BelowAllKnots(im) == \A k \in DOMAIN m_vec : QLt(grid_m[im], m_vec[k])

\* C12: after upperenvelope returns, every target strictly below all knots
\* (grid_m[im] < m_vec[k] for every k) of an ascending target grid has
\* c_ast_vec[im] = grid_m[im]: no segment overwrites the constrained choice.
C12_BelowAllKnots ==
    Returned => \A im \in DOMAIN grid_m : BelowAllKnots(im) => c_ast_vec[im] = grid_m[im]

\* C12 witness: three knots with a scanned segment that set the output at a
\* target inside the knots, and a target below all knots that consumes all
C12_Witness ==
    /\ Returned
    /\ Na = 3 /\ Nm = 2
    /\ BelowAllKnots(0) /\ c_ast_vec[0] = grid_m[0]
    /\ \E ia \in Producers(1) : Out(1) = SegmentGuess(ia, 1)
    /\ ~Constrained(1)

\* ufunc(m_vec[0]) + continuation(inv_w_vec[0])
ValueAtFirstKnot == ValueOfChoice(Utility(ufunc, m_vec[0]), inv_w_vec[0], use_inv_w)

Candidates(im) ==
    {SegmentGuess(ia, im) : ia \in Producers(im)}
        \cup (IF Constrained(im) THEN {ConsumeAll(im)} ELSE {})

\* C14: for every target im the final v_ast_vec[im] is the maximum of the
\* values of all candidates at grid_m[im] (every segment that produced one, and
\* the constrained value when the constrained step claimed the point), and
\* c_ast_vec[im] is the c of a candidate attaining that maximum: the result
\* does not depend on the order of the scan, except for ties.
C14_EnvelopeSelection ==
    Returned =>
        \A im \in DOMAIN grid_m :
            Candidates(im) # {} =>
                /\ \A g \in Candidates(im) : QLe(g.v, v_ast_vec[im])
                /\ \E g \in Candidates(im) : g = Out(im)

\* C14 witness: a target at which two segments produced candidates, the later
\* segment's of strictly higher value, and the outputs hold the later one
C14_Witness ==
    /\ Returned
    /\ \E im \in DOMAIN grid_m :
          \E ia \in Producers(im), ib \in Producers(im) :
              /\ ia < ib
              /\ QLt(SegmentGuess(ia, im).v, SegmentGuess(ib, im).v)
              /\ Out(im) = SegmentGuess(ib, im)

\* the pair every output entry holds before a candidate claims it
Sentinel == [c |-> Num(0), v |-> NegInf]

\* the candidates at target im with a value above -infinity
Claimants(im) == {g \in Candidates(im) : QLt(NegInf, g.v)}

\* C15: after upperenvelope returns, every target im holds either
\* (0, -infinity), exactly when neither the constrained step nor any segment
\* produced a candidate with value above -infinity there, or the (c, v) of one
\* single candidate: c and v are never taken from different candidates.
C15_OnePair ==
    Returned =>
        \A im \in DOMAIN grid_m :
            /\ (Out(im) = Sentinel) <=> (Claimants(im) = {})
            /\ Claimants(im) # {} => Out(im) \in Claimants(im)

\* C15 witness: a target no candidate claims although a segment reached it with
\* value -infinity, next to a target that holds the pair of the second of two
\* claimants with different c
C15_Witness ==
    /\ Returned
    /\ \E im \in DOMAIN grid_m :
          /\ Producers(im) # {} /\ Claimants(im) = {} /\ Out(im) = Sentinel
    /\ \E im \in DOMAIN grid_m :
          \E g \in Claimants(im), h \in Claimants(im) :
              /\ g.c # h.c /\ QLt(g.v, h.v) /\ Out(im) = h

\* the output arrays of a call on the current inputs whose output buffers hold
\* c_buf and v_buf
OutputsFrom(c_buf, v_buf) ==
    LET r == upperenvelope([Mem EXCEPT !.c_ast_vec = c_buf, !.v_ast_vec = v_buf],
                           ufunc, use_inv_w)
    IN  <<r.c_ast_vec, r.v_ast_vec>>

\* C16: the output arrays are fully overwritten: after a call, c_ast_vec and
\* v_ast_vec are what a call on the same inputs yields from any other content
\* of the buffers, and what a second call on the same buffers yields.
C16_FullyOverwritten ==
    op = "upperenvelope" =>
        /\ \A f \in BufferFills :
              OutputsFrom([i \in DOMAIN grid_m |-> f], [i \in DOMAIN grid_m |-> f])
                  = <<c_ast_vec, v_ast_vec>>
        /\ OutputsFrom(c_ast_vec, v_ast_vec) = <<c_ast_vec, v_ast_vec>>

\* C16 witness: a returned call that left one target at the sentinel pair, which
\* is neither of the pairs a filled buffer held, and gave another to a candidate
C16_Witness ==
    /\ Returned
    /\ \E im \in DOMAIN grid_m : Out(im) = Sentinel
    /\ \E im \in DOMAIN grid_m : Out(im) # Sentinel /\ Out(im).v # Num(9)

\* the array holding the elements of the sequence s
ArrayOf(s) == [i \in 0..(Len(s) - 1) |-> s[i+1]]

\* the knots and the target of the fold scenario: grid_a = [0,1,2],
\* m_vec = [1,3,2], c_vec = [1,2,1.5], inv_w_vec = [0,-1,-0.5], grid_m = [1.5]
FoldScenario ==
    /\ grid_a = ArrayOf(<<Num(0), Num(1), Num(2)>>)
    /\ m_vec = ArrayOf(<<Num(1), Num(3), Num(2)>>)
    /\ c_vec = ArrayOf(<<Num(1), Num(2), Div(3, 2)>>)
    /\ inv_w_vec = ArrayOf(<<Num(0), Num(-1), Div(-1, 2)>>)
    /\ grid_m = ArrayOf(<<Div(3, 2)>>)

\* C17 as claimed: in the fold scenario two segments bracket m = 1.5, each
\* produces a candidate, and upperenvelope outputs the candidate with the higher
\* value of the two.
C17_FoldTwoCandidates ==
    (Returned /\ FoldScenario) =>
        /\ Cardinality(Producers(0)) = 2
        /\ \A ia \in Producers(0) : QLe(SegmentGuess(ia, 0).v, v_ast_vec[0])
        /\ \E ia \in Producers(0) : Out(0) = SegmentGuess(ia, 0)

\* C17 amended: in the fold scenario only the segment between the knots 0 and 1
\* (m from 1 to 3) brackets m = 1.5; the segment between the knots 1 and 2 runs
\* from m = 3 down to m = 2 and produces no candidate; upperenvelope outputs
\* the candidate of the first segment, c = 1.25 with the continuation value
\* interpolated at a = 0.25.
C17_FoldOneCandidate ==
    (op = "upperenvelope" /\ FoldScenario) =>
        /\ ret = "None"
        /\ Producers(0) = {0}
        /\ Out(0) = [c |-> Div(5, 4),
                     v |-> ValueOfChoice(Utility(ufunc, Div(5, 4)), Div(-1, 4),
                                         use_inv_w)]

\* C17 witness: the fold scenario after a call with the negative-inverse flag
\* set, where the output is c = 1.25 and v = 1.25 + 4
C17_Witness ==
    /\ Returned /\ FoldScenario
    /\ use_inv_w /\ ufunc = "lin"
    /\ Out(0) = [c |-> Div(5, 4), v |-> Div(21, 4)]

\* C18: upperenvelope never raises during the constrained step or the scan and
\* always returns, for every input with knot arrays of equal length and any
\* target grid, also when two consecutive grid_a are equal, two consecutive
\* m_vec are equal, or inv_w_vec[0] is 0 while the negative-inverse flag is set.
C18_NeverRaises ==
    op = "upperenvelope" => ret = "None"

\* the arrays upperenvelope reads
Inputs == <<grid_a, m_vec, c_vec, inv_w_vec, grid_m>>

\* C19: upperenvelope does not mutate its inputs: grid_a, m_vec, c_vec,
\* inv_w_vec and grid_m are element for element the same after every call,
\* returned or raised; only c_ast_vec and v_ast_vec are written, and they keep
\* their length.
C19_InputsUnchanged ==
    [][op' = "upperenvelope" =>
          /\ Inputs' = Inputs
          /\ DOMAIN c_ast_vec' = DOMAIN c_ast_vec
          /\ DOMAIN v_ast_vec' = DOMAIN v_ast_vec]_vars

\* C19 witness: a returned call on three knots that wrote both outputs at two
\* targets, one with the constrained choice and one with a segment's candidate
\* whose c is none of the knots' c
C19_Witness ==
    /\ Returned /\ Na = 3 /\ Nm = 2
    /\ Constrained(0) /\ Out(0) = ConsumeAll(0)
    /\ \E ia \in Producers(1) : Out(1) = SegmentGuess(ia, 1)
    /\ \A k \in DOMAIN c_vec : c_vec[k] # c_ast_vec[1]

(***************************************************************************)
(* Claims about the monotone search on batches in any order.               *)
(***************************************************************************)
\* C20: for every batch of last-dimension queries, sorted or not, every
\* prep[i] that interp_2d_only_last_vec_mon / interp_3d_only_last_vec_mon
\* writes lies in [0, grid.size-2], so grid[prep[i]+1] and the value reads are
\* in range (the brackets may differ from those of binary_search).
C20_MonotoneStaysInRange ==
    op \in {"interp_2d_only_last_vec_mon", "interp_3d_only_last_vec_mon"} =>
        \A i \in DOMAIN yi : prep[i] \in 0..(Size(grid[dim]) - 2)

\* C20 witness: a batch that is not sorted, after a monotone call that left a
\* bracket binary_search does not return and a value direct evaluation does not
\* give, with every bracket in range
C20_Witness ==
    /\ op \in {"interp_2d_only_last_vec_mon", "interp_3d_only_last_vec_mon"}
    /\ ~NonDecreasing(LastXi)
    /\ \E i \in DOMAIN yi : prep[i] # LastBracket(i) /\ yi[i] # Direct(i)
    /\ \A i \in DOMAIN yi : prep[i] \in 0..(Size(grid[dim]) - 2)

\* C21: in monotone mode the bracket only advances: after
\* interp_2d_only_last_vec_mon / interp_3d_only_last_vec_mon, for any batch,
\* prep[i] >= prep[i-1] for every 0 < i < Nyi, and the forward scan of query i,
\* which starts at prep[i-1], ends at prep[i] after at most grid.size-2 steps.
C21_BracketOnlyAdvances ==
    op \in {"interp_2d_only_last_vec_mon", "interp_3d_only_last_vec_mon"} =>
        \A i \in DOMAIN yi :
            i > 0 =>
                LET run == mon_advance_run(prep[i-1], grid[dim], LastXi[i], 0)
                IN  /\ prep[i] >= prep[i-1]
                    /\ run.j = prep[i]
                    /\ run.steps = prep[i] - prep[i-1]
                    /\ run.steps <= Size(grid[dim]) - 2

\* C21 witness: a monotone call whose second query lies at or beyond the last
\* grid point, so that the scan takes grid.size-2 steps (at least one) and is
\* stopped by the bound on the bracket
C21_Witness ==
    /\ op \in {"interp_2d_only_last_vec_mon", "interp_3d_only_last_vec_mon"}
    /\ Nyi >= 2
    /\ LastXi[1] >= grid[dim][Size(grid[dim]) - 1]
    /\ prep[0] = 0
    /\ prep[1] = Size(grid[dim]) - 2
    /\ prep[1] > prep[0]

(***************************************************************************)
(* Claims about the layout of the token prep.                              *)
(***************************************************************************)
\* the calls that build or fill a token
TokenOps ==
    {"interp_2d_prep", "interp_3d_prep",
     "interp_2d_only_last_vec", "interp_3d_only_last_vec",
     "interp_2d_only_last_vec_mon", "interp_3d_only_last_vec_mon",
     "interp_2d_only_last_vec_mon_rep", "interp_3d_only_last_vec_mon_rep"}

\* the bracket binary_search returns for the query of the shared dimension k
SharedBracket(k) == binary_search(0, Size(grid[k]), grid[k], xi[k])

\* C22 as claimed: in the token built by interp_2d_prep / interp_3d_prep and
\* filled by the only-last batch functions, the shared brackets occupy the
\* leading positions and the Nyi per-query brackets follow them.
C22_SharedBracketsFirst ==
    op \in TokenOps =>
        /\ \A k \in 1..(dim - 1) : prep[k - 1] = SharedBracket(k)
        /\ op \in {"interp_2d_only_last_vec", "interp_3d_only_last_vec"} =>
              \A i \in DOMAIN yi : prep[(dim - 1) + i] = LastBracket(i)

\* C22 amended: the token has 'per-query brackets first, shared brackets last':
\* it holds Nyi + dim - 1 entries, the per-query brackets occupy prep[0..Nyi-1]
\* (zero after interp_2d_prep / interp_3d_prep, the brackets of binary_search
\* after the full-search batch functions) and the shared brackets follow them
\* at prep[Nyi], (prep[Nyi+1]).
C22_SharedBracketsLast ==
    op \in TokenOps =>
        /\ Size(prep) = Nyi + dim - 1
        /\ \A k \in 1..(dim - 1) : prep[Nyi + k - 1] = SharedBracket(k)
        /\ op \in {"interp_2d_prep", "interp_3d_prep"} =>
              \A i \in DOMAIN yi : prep[i] = 0
        /\ op \in {"interp_2d_only_last_vec", "interp_3d_only_last_vec"} =>
              \A i \in DOMAIN yi : prep[i] = LastBracket(i)

\* C22 witness: a 3d token filled by the full search, whose two leading entries
\* are per-query brackets that differ from the shared brackets after them
C22_Witness ==
    /\ op = "interp_3d_only_last_vec"
    /\ Nyi = 2
    /\ prep[0] = LastBracket(0) /\ prep[1] = LastBracket(1)
    /\ prep[2] = SharedBracket(1) /\ prep[3] = SharedBracket(2)
    /\ prep[0] # prep[2] /\ prep[1] # prep[3]

(***************************************************************************)
(* Claims about the cost of binary_search.                                 *)
(***************************************************************************)
\* the least k with 2^k >= n
CeilLog2(n) == CHOOSE k \in 0..n : 2^k >= n /\ (k = 0 \/ 2^(k-1) < n)

\* the run of binary_search on the caller's grid and query
SearchRun == binary_search_run(0, Size(grid[1]), grid[1], xi[1])

\* C23: binary_search terminates for every grid of size N >= 2 and every
\* query: it returns after at most ceil(log2(N)) iterations of the halving
\* loop, and every index imin+half the loop reads lies in [0, N-1].
C23_SearchCost ==
    op = "binary_search" =>
        /\ ret = SearchRun.imin
        /\ SearchRun.iters <= CeilLog2(Size(grid[1]))
        /\ SearchRun.reads \subseteq 0..(Size(grid[1]) - 1)

\* C23 witness: a grid of 5 points, whose size is no power of two, searched in
\* ceil(log2(5)) = 3 iterations that read the indices 1 and 2
C23_Witness ==
    /\ op = "binary_search"
    /\ Size(grid[1]) = 5
    /\ SearchRun.iters = 3
    /\ SearchRun.reads = {1, 2}
    /\ ret = 1

\* the segments whose asset endpoints are inverted
Inverted == {ia \in 0..(Na - 2) : QLt(grid_a[ia+1], grid_a[ia])}

\* the arrays when the scan starts: the outputs reset and the constraint applied
BeforeScan == ue_constraint(0, ue_reset(Mem), ufunc, use_inv_w)

\* segment ia would interpolate at target im
WouldInterpolate(ia, im) ==
    QLe(m_vec[ia], grid_m[im]) /\ QLe(grid_m[im], m_vec[ia+1])

\* segment ia would extrapolate above the last knot at target im
WouldExtrapolate(ia, im) ==
    ia = Na - 2 /\ QLt(m_vec[Na-1], grid_m[im])

\* C24: a segment with grid_a[ia] > grid_a[ia+1] is skipped entirely: the scan
\* from that segment on does what the scan from the next segment on does, and
\* after upperenvelope returns every target holds the sentinel pair or the
\* candidate of the constrained step or of a segment that is not inverted,
\* also where an inverted segment would interpolate or, being the last segment,
\* extrapolate.
C24_InvertedSkipped ==
    Returned =>
        /\ \A ia \in Inverted :
              /\ ue_scan(ia, BeforeScan, ufunc, use_inv_w)
                    = ue_scan(ia + 1, BeforeScan, ufunc, use_inv_w)
              /\ ia \notin UNION {Producers(im) : im \in DOMAIN grid_m}
        /\ \A im \in DOMAIN grid_m : Out(im) \in {Sentinel} \cup Candidates(im)

\* C24 witness: a returned call with an inverted segment that would have
\* interpolated at a target with a value above the one the target holds, and an
\* inverted last segment that would have extrapolated with such a value
C24_Witness ==
    /\ Returned
    /\ \E ia \in Inverted, im \in DOMAIN grid_m :
          /\ ~SlopeRaises(ia, Mem)
          /\ WouldInterpolate(ia, im)
          /\ QLt(v_ast_vec[im], SegmentGuess(ia, im).v)
    /\ \E ia \in Inverted, im \in DOMAIN grid_m :
          /\ ~SlopeRaises(ia, Mem)
          /\ WouldExtrapolate(ia, im)
          /\ QLt(v_ast_vec[im], SegmentGuess(ia, im).v)

\* the largest endogenous m
MaxM == CHOOSE x \in {m_vec[k] : k \in DOMAIN m_vec} : \A k \in DOMAIN m_vec : QLe(m_vec[k], x)

\* C25 as claimed: segment ia produces a candidate at a target m only if
\* m_vec[ia] <= m <= m_vec[ia+1], except that the last segment, and only the
\* last, also produces a candidate for every m above the maximum of m_vec.
C25_ExtrapolatesAboveMaximum ==
    Returned =>
        \A ia \in 0..(Na - 2), im \in DOMAIN grid_m :
            /\ ia \in Producers(im) =>
                  \/ WouldInterpolate(ia, im)
                  \/ ia = Na - 2 /\ QLt(MaxM, grid_m[im])
            /\ (ia = Na - 2 /\ QLt(MaxM, grid_m[im])) => ia \in Producers(im)

\* the segments that may give target im its pair: not skipped, and bracketing
\* the target or, the last one only, with the target above the last knot
Admitted(im) ==
    {ia \in 0..(Na - 2) :
        /\ QLe(grid_a[ia], grid_a[ia+1])
        /\ WouldInterpolate(ia, im) \/ WouldExtrapolate(ia, im)}

\* C25 amended: segment ia produces a candidate at a target m exactly when it
\* is not skipped and either m_vec[ia] <= m <= m_vec[ia+1] or it is the last
\* segment and m exceeds m_vec[Na-1], the m of the last knot; no other segment
\* extrapolates, and every target ends with the sentinel pair, the constrained
\* pair or the candidate of such a segment.
C25_ExtrapolatesAboveLastKnot ==
    Returned =>
        \A im \in DOMAIN grid_m :
            /\ Producers(im) = Admitted(im)
            /\ Out(im) \in {Sentinel}
                  \cup (IF Constrained(im) THEN {ConsumeAll(im)} ELSE {})
                  \cup {SegmentGuess(ia, im) : ia \in Admitted(im)}

\* C25 witness: folded knots whose last segment is not skipped and gives a
\* target its pair by extrapolation, the target lying above the last knot's m
\* and not above the maximum of m_vec
C25_Witness ==
    /\ Returned
    /\ Na = 3
    /\ \E im \in DOMAIN grid_m :
          /\ QLt(m_vec[Na-1], grid_m[im]) /\ QLe(grid_m[im], MaxM)
          /\ ~WouldInterpolate(Na - 2, im)
          /\ Na - 2 \in Producers(im)
          /\ Out(im) = SegmentGuess(Na - 2, im)

\* the candidates of maximal value at target im
Maximal(im) == {g \in Candidates(im) : \A h \in Candidates(im) : QLe(h.v, g.v)}

\* the candidate of maximal value produced first in scan order at target im:
\* the constrained candidate before any segment, then the lowest segment
FirstMaximal(im) ==
    IF Constrained(im) /\ ConsumeAll(im) \in Maximal(im)
    THEN ConsumeAll(im)
    ELSE LET firsts == {ia \in Producers(im) :
                           /\ SegmentGuess(ia, im) \in Maximal(im)
                           /\ \A ib \in Producers(im) :
                                 SegmentGuess(ib, im) \in Maximal(im) => ia <= ib}
         IN  SegmentGuess(CHOOSE ia \in firsts : TRUE, im)

\* C26: ties are broken by first-found: when several candidates at a target have
\* equal maximal value, the output keeps the pair of the one produced first in
\* scan order, the constrained candidate before any segment and then the
\* lowest segment index.
C26_FirstFound ==
    Returned =>
        \A im \in DOMAIN grid_m :
            Candidates(im) # {} => Out(im) = FirstMaximal(im)

\* C26 witness: a target at which two candidates with different c tie at the
\* maximal value, and the output holds the c of the first
C26_Witness ==
    /\ Returned
    /\ \E im \in DOMAIN grid_m :
          /\ \E g \in Maximal(im), h \in Maximal(im) : g.c # h.c
          /\ Out(im) = FirstMaximal(im)

\* the arrays after the constrained step of a call with the flag inv
ConstrainedStep(inv) == ue_constraint(0, ue_reset(Mem), ufunc, inv)

\* what segment ia computes at target im in a call with the flag inv
GuessWith(ia, im, inv) == ue_guess(ia, im, Mem, ufunc, inv)

\* C27: the negative-inverse flag never changes the policy of a candidate: on
\* the same inputs, with the flag set and unset, the constrained step writes
\* grid_m[im] as consumption wherever it writes, and every segment produces a
\* candidate at the same targets with the same consumption c_guess (and so the
\* same implied asset m - c_guess).
C27_FlagKeepsPolicy ==
    op = "upperenvelope" =>
        /\ \A inv \in BOOLEAN, im \in DOMAIN grid_m :
              /\ ConstrainedStep(inv).c_ast_vec[im] \in {Num(0), grid_m[im]}
              /\ (Constrained(im) /\ ~ConstrainedStep(inv).raised) =>
                    ConstrainedStep(inv).c_ast_vec[im] = grid_m[im]
              /\ ~Constrained(im) => ConstrainedStep(inv).c_ast_vec[im] = Num(0)
        /\ \A ia \in Scanned, im \in DOMAIN grid_m :
              ~SlopeRaises(ia, Mem) =>
                  /\ GuessWith(ia, im, TRUE).taken = GuessWith(ia, im, FALSE).taken
                  /\ GuessWith(ia, im, TRUE).c = GuessWith(ia, im, FALSE).c

\* C27 witness: inputs on which the flag changes the value of the constrained
\* candidate and of a segment's candidate and leaves the consumption of both
C27_Witness ==
    /\ Returned
    /\ \E im \in DOMAIN grid_m :
          /\ Constrained(im)
          /\ ~ConstrainedStep(TRUE).raised
          /\ ConstrainedStep(TRUE).v_ast_vec[im] # ConstrainedStep(FALSE).v_ast_vec[im]
          /\ ConstrainedStep(TRUE).c_ast_vec[im] = ConstrainedStep(FALSE).c_ast_vec[im]
    /\ \E ia \in Scanned, im \in DOMAIN grid_m :
          /\ GuessWith(ia, im, TRUE).taken
          /\ ~GuessWith(ia, im, TRUE).raises
          /\ GuessWith(ia, im, TRUE).v # GuessWith(ia, im, FALSE).v
          /\ GuessWith(ia, im, TRUE).c = GuessWith(ia, im, FALSE).c
          /\ GuessWith(ia, im, TRUE).c # Num(0)

(***************************************************************************)
(* Claims about what the batch functions write.                            *)
(***************************************************************************)
\* the only-last batch functions, and those of them that do not search
BatchOps ==
    {"interp_2d_only_last_vec", "interp_3d_only_last_vec",
     "interp_2d_only_last_vec_mon", "interp_3d_only_last_vec_mon",
     "interp_2d_only_last_vec_mon_rep", "interp_3d_only_last_vec_mon_rep"}

RepOps == {"interp_2d_only_last_vec_mon_rep", "interp_3d_only_last_vec_mon_rep"}

\* the result of the batch function name called on the caller's arrays with the
\* output buffer y in place of yi
BatchResult(name, y) ==
    CASE name = "interp_2d_only_last_vec" ->
            interp_2d_only_last_vec(prep, grid[1], grid[2], vkind, xi[1], xi[2], y)
      [] name = "interp_2d_only_last_vec_mon" ->
            interp_2d_only_last_vec_mon(prep, grid[1], grid[2], vkind, xi[1], xi[2], y)
      [] name = "interp_2d_only_last_vec_mon_rep" ->
            interp_2d_only_last_vec_mon_rep(prep, grid[1], grid[2], vkind, xi[1], xi[2], y)
      [] name = "interp_3d_only_last_vec" ->
            interp_3d_only_last_vec(prep, grid[1], grid[2], grid[3], vkind,
                                    xi[1], xi[2], xi[3], y)
      [] name = "interp_3d_only_last_vec_mon" ->
            interp_3d_only_last_vec_mon(prep, grid[1], grid[2], grid[3], vkind,
                                        xi[1], xi[2], xi[3], y)
      [] name = "interp_3d_only_last_vec_mon_rep" ->
            interp_3d_only_last_vec_mon_rep(prep, grid[1], grid[2], grid[3], vkind,
                                            xi[1], xi[2], xi[3], y)

Spanning ==
    /\ Na >= 2
    /\ \A ia \in 0..(Na - 2) : QLt(grid_a[ia], grid_a[ia+1])
    /\ \A ia \in 0..(Na - 2) : m_vec[ia] # m_vec[ia+1]
    /\ \A im \in DOMAIN grid_m : im > 0 => QLt(grid_m[im-1], grid_m[im])
    /\ ufunc = "lin"

\* C29: coverage: with spanning knots, folded or not, no target retains the
\* sentinel after upperenvelope returns: every v_ast_vec[im] > -infinity, since
\* every target is at most m_vec[0], bracketed by an upward segment, or above
\* m_vec[Na-1].
C29_Coverage ==
    (Returned /\ Spanning) =>
        \A im \in DOMAIN grid_m :
            /\ QLt(NegInf, v_ast_vec[im])
            /\ \/ Constrained(im)
               \/ \E ia \in 0..(Na - 2) : WouldInterpolate(ia, im)
               \/ QLt(m_vec[Na-1], grid_m[im])

\* C29 witness: spanning knots with a fold, one target in the constrained
\* region and one outside it above the last knot
C29_Witness ==
    /\ Returned /\ Spanning
    /\ Na = 3 /\ Nm = 2
    /\ QLt(m_vec[2], m_vec[1])
    /\ Constrained(0)
    /\ QLt(m_vec[Na-1], grid_m[1])
    /\ ~Constrained(1)
    /\ \A im \in DOMAIN grid_m : QLt(NegInf, v_ast_vec[im])

\* the targets the constrained step claims: the target and all earlier targets
\* are at most m_vec[0]
Claimed(im) == \A k \in 0..im : QLe(grid_m[k], m_vec[0])

\* the value-of-choice array v is nowhere below the array w
NowhereBelow(v, w) == \A im \in DOMAIN w : QLe(w[im], v[im])

\* C30: for every target the constrained step claims, the final value is at
\* least the constrained value stored there, u(grid_m[im]) +
\* continuation(inv_w_vec[0]); the scan only raises a stored value: the final
\* values are nowhere below those the scan started from, and no scanned segment,
\* applied to those, lowers one.
C30_ScanOnlyRaises ==
    Returned =>
        /\ \A im \in DOMAIN grid_m :
              Claimed(im) =>
                  /\ BeforeScan.v_ast_vec[im] = ConsumeAll(im).v
                  /\ QLe(BeforeScan.v_ast_vec[im], v_ast_vec[im])
        /\ NowhereBelow(v_ast_vec, BeforeScan.v_ast_vec)
        /\ \A ia \in Scanned :
              NowhereBelow(ue_targets(ia, 0, BeforeScan, ufunc, use_inv_w).v_ast_vec,
                           BeforeScan.v_ast_vec)

\* C30 witness: two claimed targets, one raised by the scan above the
\* constrained value, the other kept at it although a segment produced a
\* candidate of lower value there
C30_Witness ==
    /\ Returned
    /\ \E im \in DOMAIN grid_m :
          /\ Claimed(im)
          /\ QLt(ConsumeAll(im).v, v_ast_vec[im])
    /\ \E im \in DOMAIN grid_m :
          /\ Claimed(im)
          /\ v_ast_vec[im] = ConsumeAll(im).v
          /\ \E ia \in Producers(im) : QLt(SegmentGuess(ia, im).v, v_ast_vec[im])

====
